---- MODULE Spec2Model ----
(***************************************************************************)
(* State-machine model of BestwayApi                                       *)
(* (src/custom_components/bestway/bestway/api.py): the device bindings,    *)
(* the two status caches, the poll cycle fetch_data and the eight command  *)
(* coroutines.  Every coroutine is cut at its awaits: the code between two *)
(* awaits runs without interruption on the asyncio event loop and is one   *)
(* action here.                                                            *)
(*                                                                         *)
(* The caches are Python dicts that hold references to mutable status      *)
(* objects, and a command keeps the reference it looked up across its      *)
(* await.  The model therefore has a heap: the caches and the suspended    *)
(* commands hold object ids, heap maps an id to the object's fields.       *)
(*                                                                         *)
(* Python bool is a subclass of int (True == 1, False == 0); flag fields   *)
(* are kept as 0/1 so that a raw payload value and a bool compare the way  *)
(* they do in Python.                                                      *)
(***************************************************************************)
EXTENDS Integers, Sequences, FiniteSets, TLC

\* Largest value of the wall clock and of a server timestamp.
MaxTime == 2

\* How many command requests are sent upstream in one behaviour.
MaxPosts == 1

\* How many error flags a payload raises at once, where payloads range over
\* the sets of raised flags.
MaxFlags == 2

\* ----------------------------------------------------------------- universe

\* BestwayDeviceType members used by fetch_data's dispatch.
AIRJET_SPA == "AIRJET_SPA"
Airjet_V01 == "Airjet_V01"
POOL_FILTER == "POOL_FILTER"
UNKNOWN == "UNKNOWN"

\* The devices of the account, as /app/bindings lists them.
SpaDevice == [device_id |-> "spa1", device_type |-> AIRJET_SPA]
PoolDevice == [device_id |-> "pool1", device_type |-> POOL_FILTER]

DeviceIds == {SpaDevice.device_id, PoolDevice.device_id}

\* The lists refresh_bindings may receive (order is the dict's iteration
\* order): the account binds a spa and a pool filter.
BindingLists == { <<SpaDevice, PoolDevice>> }

\* Concurrent callers of the command coroutines.
Callers == {"caller1"}

\* dict.get's None, as an object reference.
None == << >>

\* Object ids.  A status object is only ever constructed for one device id
\* (fetch_data's did), so an id is that device id and a number; at any time
\* a device id has at most one object per cache and one per suspended
\* command that still holds an object dropped from its cache.
Slots == 1 .. (2 + Cardinality(Callers))
ObjIds == DeviceIds \X Slots
NoObj == [kind |-> "free"]

PyBool(b) == IF b THEN 1 ELSE 0
Truthy(v) == v # 0

VARIABLES
    now,                      \* int(time())
    devices,                  \* self.devices, in iteration order
    spa_state_cache,          \* self._spa_state_cache: device id -> object id
    pool_filter_state_cache,  \* self._pool_filter_state_cache
    unknown_states,           \* self._unknown_states: device id -> dump
    heap,                     \* object id -> status object
    loop,                     \* fetch_data: the devices still to visit
    call,                     \* per caller: the suspended command, if any
    raised,                   \* the exception the last step raised to a caller
    logged,                   \* the last message the last step gave _LOGGER
    posts,                    \* the command requests sent so far
    local_write               \* history: per device, the last successful
                              \* command no stored poll has followed

vars == << now, devices, spa_state_cache, pool_filter_state_cache,
           unknown_states, heap, loop, call, raised, logged, posts,
           local_write >>

NoDump == [kind |-> "absent"]
Idle == [pc |-> "idle"]
NoLog == [msg |-> "none"]
NoWrite == [op |-> "none"]

\* ------------------------------------------------------------ poll payloads

\* The token temp_set_unit carries for Celsius (the two Chinese characters
\* of api.py line 215) and the pool filter's "running" status token (line 274).
CelsiusToken == "sheshi"
RunningToken == "yunxingzhong"

\* range(1, 10) and range(1, 32)
SpaErrNums == 1 .. 9
V01ErrNums == 1 .. 31

\* f"system_err{err_num}", tabulated
SystemErrKeys == [n \in SpaErrNums |-> "system_err" \o ToString(n)]
SystemErrKey(n) == IF n \in SpaErrNums THEN SystemErrKeys[n] ELSE "none"

\* f"E0{err_num}" below 10, f"E{err_num}" from 10 on, tabulated
V01ErrKeys ==
    [n \in V01ErrNums |->
        IF n < 10 THEN "E0" \o ToString(n) ELSE "E" \o ToString(n)]
V01ErrKey(n) == IF n \in V01ErrNums THEN V01ErrKeys[n] ELSE "none"

\* The attribute keys each branch of fetch_data subscripts.
SpaKeys ==
    { "power", "temp_now", "temp_set", "temp_set_unit", "heat_power",
      "heat_temp_reach", "filter_power", "wave_power", "locked", "earth" }
    \cup { SystemErrKey(n) : n \in SpaErrNums }
V01Keys ==
    { "power", "Tnow", "Tset", "Tunit", "heat", "filter", "wave" }
    \cup { V01ErrKey(n) : n \in V01ErrNums }
PoolFilterKeys == { "filter", "power", "time", "status", "error" }

\* A complete current-firmware spa payload: the four switches at `on`,
\* error flag `err` raised (0: none).
SpaAttrs(on, err) ==
    [k \in SpaKeys |->
        CASE k \in {"power", "heat_power", "filter_power", "wave_power"} -> on
          [] k = "temp_now" -> 30
          [] k = "temp_set" -> 38
          [] k = "temp_set_unit" -> CelsiusToken
          [] k = SystemErrKey(err) -> 1
          [] OTHER -> 0]

\* A complete legacy spa payload.
V01Attrs(on, err) ==
    [k \in V01Keys |->
        CASE k \in {"power", "heat", "filter", "wave"} -> on
          [] k = "Tnow" -> 30
          [] k = "Tset" -> 38
          [] k = "Tunit" -> 1
          [] k = V01ErrKey(err) -> 1
          [] OTHER -> 0]

\* A complete pool filter payload.
PoolFilterAttrs(on) ==
    [k \in PoolFilterKeys |->
        CASE k = "power" -> on
          [] k = "time" -> 2
          [] k = "status" -> IF on = 1 THEN RunningToken ELSE "stopped"
          [] OTHER -> 0]

\* A payload with one key missing.
Without(attrs, key) == [k \in DOMAIN attrs \ {key} |-> attrs[k]]

\* The JSON bodies of /app/devdata/<did>/latest carrying one of `payloads`.
\* updated_at = 0 is what an offline device returns; its attr has been
\* observed to be empty (line 177), which nothing guarantees.
Bodies(payloads) ==
    { [updated_at |-> t, attr |-> a] : t \in 0 .. MaxTime, a \in payloads }
    \cup { [updated_at |-> 0, attr |-> << >>] }

\* The Bestway error codes a failed response's body can carry; 0 stands
\* for a code the integration does not know, or none.
ErrorCodes == { 9004, 9042, 0 }

\* What the awaited session.get can come back with.
Responses(bodies) ==
    { [status |-> "ok", body |-> b] : b \in bodies }
    \cup { [status |-> "http_error", error_code |-> e] : e \in ErrorCodes }
    \cup { [status |-> "timeout"] }

\* The responses the server gives for a device of each type: complete
\* payloads and one with a key missing.
SpaResponses ==
    Responses(Bodies({ SpaAttrs(1, 3), SpaAttrs(0, 0),
                       Without(SpaAttrs(1, 0), "earth") }))
V01Responses ==
    Responses(Bodies({ V01Attrs(1, 3), V01Attrs(0, 0),
                       Without(V01Attrs(1, 0), "E31") }))
PoolFilterResponses ==
    Responses(Bodies({ PoolFilterAttrs(1), PoolFilterAttrs(0),
                       Without(PoolFilterAttrs(1), "error") }))
UnknownResponses == Responses(Bodies({ [mystery |-> 1] }))

GetResponses(device_type) ==
    CASE device_type = AIRJET_SPA -> SpaResponses
      [] device_type = Airjet_V01 -> V01Responses
      [] device_type = POOL_FILTER -> PoolFilterResponses
      [] OTHER -> UnknownResponses

\* _do_get: the exception it raises, "none" when it returns the body.
do_get(response) ==
    CASE response.status = "timeout" -> "TimeoutError"
      [] response.status = "http_error" -> "ClientResponseError"
      [] OTHER -> "none"

\* ------------------------------------------------------------------ decoder

KeyError == [kind |-> "KeyError"]

\* The flag key of error number n in a firmware family's naming.
ErrKey(family, n) ==
    IF family = Airjet_V01 THEN V01ErrKey(n) ELSE SystemErrKey(n)

\* An extraction that puts each raised flag in front of the ones found
\* before it.
RECURSIVE ErrorsDescending(_, _, _, _)
ErrorsDescending(attrs, family, n, last) ==
    IF n > last THEN << >>
    ELSE ErrorsDescending(attrs, family, n + 1, last)
         \o (IF attrs[ErrKey(family, n)] = 1 THEN << n >> ELSE << >>)

\* for err_num in range(n, last + 1): append err_num when its flag is 1
RECURSIVE ErrorsFrom(_, _, _, _)
ErrorsFrom(attrs, family, n, last) ==
    IF n > last THEN << >>
    ELSE (IF attrs[ErrKey(family, n)] = 1 THEN << n >> ELSE << >>)
         \o ErrorsFrom(attrs, family, n + 1, last)

\* The AIRJET_SPA branch: BestwaySpaDeviceStatus(...) or the KeyError.
DecodeSpa(updated_at, attrs) ==
    IF ~(SpaKeys \subseteq DOMAIN attrs) THEN KeyError
    ELSE [ kind |-> "BestwaySpaDeviceStatus",
           timestamp |-> updated_at,
           spa_power |-> attrs["power"],
           temp_now |-> attrs["temp_now"],
           temp_set |-> attrs["temp_set"],
           temp_set_unit |-> IF attrs["temp_set_unit"] = CelsiusToken
                             THEN "CELSIUS" ELSE "FAHRENHEIT",
           heat_power |-> PyBool(attrs["heat_power"] = 1),
           heat_temp_reach |-> PyBool(attrs["heat_temp_reach"] = 1),
           filter_power |-> PyBool(attrs["filter_power"] = 1),
           wave_power |-> PyBool(attrs["wave_power"] = 1),
           locked |-> PyBool(attrs["locked"] = 1),
           errors |-> ErrorsFrom(attrs, AIRJET_SPA, 1, 9),
           earth |-> PyBool(attrs["earth"] = 1) ]

\* The Airjet_V01 branch: BestwaySpaDeviceV01Status(...) or the KeyError.
DecodeV01(updated_at, attrs) ==
    IF ~(V01Keys \subseteq DOMAIN attrs) THEN KeyError
    ELSE [ kind |-> "BestwaySpaDeviceV01Status",
           timestamp |-> updated_at,
           spa_power |-> attrs["power"],
           temp_now |-> attrs["Tnow"],
           temp_set |-> attrs["Tset"],
           temp_set_unit |-> IF attrs["Tunit"] = 1
                             THEN "CELSIUS" ELSE "FAHRENHEIT",
           heat_power |-> PyBool(attrs["heat"] > 0),
           heat_temp_reach |-> PyBool(attrs["Tnow"] >= attrs["Tset"]),
           filter_power |-> PyBool(attrs["filter"] > 0),
           wave_power |-> attrs["wave"],
           locked |-> 0,
           errors |-> ErrorsFrom(attrs, Airjet_V01, 1, 31),
           earth |-> 0 ]

\* A POOL_FILTER branch that reads every key with .get(key, 0).
DecodePoolFilterLenient(updated_at, attrs) ==
    LET got == [k \in PoolFilterKeys |->
                  IF k \in DOMAIN attrs THEN attrs[k] ELSE 0]
    IN  [ kind |-> "BestwayPoolFilterDeviceStatus",
          timestamp |-> updated_at,
          filter |-> PyBool(got["filter"] = 1),
          power |-> PyBool(got["power"] = 1),
          time |-> got["time"],
          status |-> PyBool(got["status"] = RunningToken),
          error |-> PyBool(got["error"] # 0) ]

\* The POOL_FILTER branch: BestwayPoolFilterDeviceStatus(...) or the KeyError.
DecodePoolFilter(updated_at, attrs) ==
    IF ~(PoolFilterKeys \subseteq DOMAIN attrs) THEN KeyError
    ELSE [ kind |-> "BestwayPoolFilterDeviceStatus",
           timestamp |-> updated_at,
           filter |-> PyBool(attrs["filter"] = 1),
           power |-> PyBool(attrs["power"] = 1),
           time |-> attrs["time"],
           status |-> PyBool(attrs["status"] = RunningToken),
           error |-> PyBool(attrs["error"] # 0) ]

\* json.dumps(device_attrs)
JsonDump(attrs) == [kind |-> "json", text |-> attrs]

\* BestwayApi.__init__
Init ==
    /\ now = 1
    /\ devices = << >>
    /\ spa_state_cache = [d \in DeviceIds |-> None]
    /\ pool_filter_state_cache = [d \in DeviceIds |-> None]
    /\ unknown_states = [d \in DeviceIds |-> NoDump]
    /\ heap = [o \in ObjIds |-> NoObj]
    /\ loop = << >>
    /\ call = [c \in Callers |-> Idle]
    /\ raised = "none"
    /\ logged = NoLog
    /\ posts = 0
    /\ local_write = [d \in DeviceIds |-> NoWrite]

\* The wall clock advances.
Tick ==
    /\ now < MaxTime
    /\ now' = now + 1
    /\ raised' = "none"
    /\ logged' = NoLog
    /\ UNCHANGED << devices, spa_state_cache, pool_filter_state_cache,
                    unknown_states, heap, loop, call, posts, local_write >>

\* refresh_bindings: self.devices is rebuilt from the server's list.
refresh_bindings(list) ==
    /\ devices' = list
    /\ raised' = "none"
    /\ logged' = NoLog
    /\ UNCHANGED << now, spa_state_cache, pool_filter_state_cache,
                    unknown_states, heap, loop, call, posts, local_write >>

\* ---------------------------------------------------------------- the heap

\* The objects a suspended command holds.
Held(calls) ==
    { calls[c].cached_state :
        c \in { x \in Callers : calls[x].pc = "awaiting" } }

\* The objects something still refers to.
Referenced(spa, pool, calls) ==
    { spa[d] : d \in DeviceIds } \cup { pool[d] : d \in DeviceIds }
    \cup Held(calls)

\* Objects nothing refers to any more are freed.
Sweep(h, live) == [o \in ObjIds |-> IF o \in live THEN h[o] ELSE NoObj]
Collect(h, spa, pool, calls) == Sweep(h, Referenced(spa, pool, calls))

\* The caches as one value.
Caches ==
    [ spa |-> spa_state_cache, pool |-> pool_filter_state_cache,
      unknown |-> unknown_states, heap |-> heap ]

\* The id of the object constructed for cache[did] = status.  Ids name
\* objects only up to renaming: the object the assignment drops dies in the
\* same step unless a suspended command holds it, so its id is taken again.
NewObj(which, did) ==
    LET free == { k \in Slots :
                    /\ << did, k >> \notin Held(call)
                    /\ \A w \in {"spa", "pool"} \ {which} :
                           Caches[w][did] # << did, k >> }
    IN  << did, CHOOSE k \in free : \A j \in free : k <= j >>

\* dict.get on a cache, followed to the object: the status or NoObj.
Lookup(cache, did) == IF cache[did] = None THEN NoObj ELSE heap[cache[did]]

\* --------------------------------------------------------------- fetch_data

\* Lines 183-188: the timestamp of the cached state, the spa cache first.
local_update_timestamp(did) ==
    IF spa_state_cache[did] # None
    THEN heap[spa_state_cache[did]].timestamp
    ELSE IF pool_filter_state_cache[did] # None
         THEN heap[pool_filter_state_cache[did]].timestamp
         ELSE 0

\* A fetch_data without the offline check of line 176.
NeverOffline(updated_at) == FALSE

\* Line 176: zero indicates the device is offline.
IsOffline(updated_at) == updated_at = 0

\* A fetch_data that also ignores an update as old as the local data.
StaleOnTie(updated_at, local) == updated_at <= local

\* Line 191: the update is ignored when the local data is newer.
IsStale(updated_at, local) == updated_at < local

\* A cache that keeps one status for all the device ids.
StoreForAll(o, which, did, status) ==
    [ Caches EXCEPT ![which] = [d \in DeviceIds |-> o],
                    !.heap = [@ EXCEPT ![o] = status] ]

\* cache[did] = status, the status being the newly constructed object o.
StoreAt(o, which, did, status) ==
    [ Caches EXCEPT ![which] = [@ EXCEPT ![did] = o],
                    !.heap = [@ EXCEPT ![o] = status] ]
Store(which, did, status) == StoreAt(NewObj(which, did), which, did, status)

\* Lines 178, 192-194, 197, 282-286 and 290-294: what fetch_data logs.
LogOffline(did) == [msg |-> "No data available for device", did |-> did]
LogStale(did) ==
    [msg |-> "Ignoring update as local data is newer", did |-> did]
LogNewData(did) == [msg |-> "New data received for device", did |-> did]
LogUnknown(attrs) ==
    [msg |-> "Status for unknown device type", attrs |-> JsonDump(attrs)]
LogMissingKey(attrs) ==
    [msg |-> "Unexpected missing key", attrs |-> JsonDump(attrs)]

\* How an iteration leaves the caches and what it logged last.
Iteration(caches, message) == [caches |-> caches, logged |-> message]

\* The end of a branch of the try block: the status is stored, unless
\* constructing it raised the KeyError, which line 289 catches and logs.
StoreDecoded(which, did, status, attrs) ==
    IF status = KeyError
    THEN Iteration(Caches, LogMissingKey(attrs))
    ELSE Iteration(Store(which, did, status), LogNewData(did))

\* Lines 197-294: the try block, dispatching on the device type.
DecodeAndStore(info, body) ==
    CASE info.device_type = AIRJET_SPA ->
            StoreDecoded("spa", info.device_id,
                         DecodeSpa(body.updated_at, body.attr), body.attr)
      [] info.device_type = Airjet_V01 ->
            StoreDecoded("spa", info.device_id,
                         DecodeV01(body.updated_at, body.attr), body.attr)
      [] info.device_type = POOL_FILTER ->
            StoreDecoded("pool", info.device_id,
                         DecodePoolFilter(body.updated_at, body.attr),
                         body.attr)
      [] info.device_type = UNKNOWN ->
            Iteration([ Caches EXCEPT !.unknown =
                          [@ EXCEPT ![info.device_id] = JsonDump(body.attr)] ],
                      LogUnknown(body.attr))
      [] OTHER -> Iteration(Caches, LogNewData(info.device_id))

\* An iteration that drops the record of a device found offline.
PollDeviceEvicting(info, body) ==
    IF IsOffline(body.updated_at)
    THEN Iteration([ Caches EXCEPT
                       !.spa = [@ EXCEPT ![info.device_id] = None],
                       !.pool = [@ EXCEPT ![info.device_id] = None] ],
                   LogOffline(info.device_id))
    ELSE IF IsStale(body.updated_at, local_update_timestamp(info.device_id))
         THEN Iteration(Caches, LogStale(info.device_id))
         ELSE DecodeAndStore(info, body)

\* Lines 171-294: one iteration of the loop, after its _do_get returned body.
PollDevice(info, body) ==
    IF IsOffline(body.updated_at)
    THEN Iteration(Caches, LogOffline(info.device_id))
    ELSE IF IsStale(body.updated_at, local_update_timestamp(info.device_id))
         THEN Iteration(Caches, LogStale(info.device_id))
         ELSE DecodeAndStore(info, body)

\* The responses the suspended _do_get of fetch_data can resume with.
Awaited ==
    IF loop = << >> THEN {} ELSE GetResponses(Head(loop).device_type)

\* fetch_data is called: the loop starts over self.devices and suspends in
\* the first _do_get; with no devices it returns at once.
fetch_data ==
    /\ loop = << >>
    /\ loop' = devices
    /\ raised' = "none"
    /\ logged' = NoLog
    /\ UNCHANGED << now, devices, spa_state_cache, pool_filter_state_cache,
                    unknown_states, heap, call, posts, local_write >>

\* fetch_data as it would resume without the except clause of line 289
\* (catches = FALSE), or with a _do_get whose failure is passed over
\* (raises = FALSE).
fetch_data_resume_with(response, catches, raises) ==
    /\ loop # << >>
    /\ IF do_get(response) # "none"
       THEN /\ loop' = IF raises THEN << >> ELSE Tail(loop)
            /\ raised' = IF raises THEN do_get(response) ELSE "none"
            /\ logged' = NoLog
            /\ UNCHANGED << spa_state_cache, pool_filter_state_cache,
                            unknown_states, heap, local_write >>
       ELSE \E after \in { PollDevice(Head(loop), response.body) } :
                /\ spa_state_cache' = after.caches.spa
                /\ pool_filter_state_cache' = after.caches.pool
                /\ unknown_states' = after.caches.unknown
                /\ heap' = Collect(after.caches.heap, after.caches.spa,
                                   after.caches.pool, call)
                /\ IF ~catches /\ after.logged = LogMissingKey(response.body.attr)
                   THEN loop' = << >> /\ raised' = "KeyError"
                   ELSE loop' = Tail(loop) /\ raised' = "none"
                /\ logged' = after.logged
                /\ local_write' =
                       IF after.logged = LogNewData(Head(loop).device_id)
                       THEN [local_write EXCEPT
                               ![Head(loop).device_id] = NoWrite]
                       ELSE local_write
    /\ UNCHANGED << now, devices, call, posts >>

\* A fetch_data that lets the KeyError of a payload leave the coroutine.
fetch_data_resume_uncaught(response) ==
    fetch_data_resume_with(response, FALSE, TRUE)

\* A fetch_data that goes on to the next device when _do_get fails.
fetch_data_resume_passing(response) ==
    fetch_data_resume_with(response, TRUE, FALSE)

\* fetch_data resumes from _do_get with the response: an exception leaves
\* the coroutine; otherwise the iteration runs to the next _do_get or to
\* the return.
fetch_data_resume(response) ==
    /\ loop # << >>
    /\ IF do_get(response) # "none"
       THEN /\ loop' = << >>
            /\ raised' = do_get(response)
            /\ logged' = NoLog
            /\ UNCHANGED << spa_state_cache, pool_filter_state_cache,
                            unknown_states, heap, local_write >>
       ELSE \E after \in { PollDevice(Head(loop), response.body) } :
                /\ spa_state_cache' = after.caches.spa
                /\ pool_filter_state_cache' = after.caches.pool
                /\ unknown_states' = after.caches.unknown
                /\ heap' = Collect(after.caches.heap, after.caches.spa,
                                   after.caches.pool, call)
                /\ loop' = Tail(loop)
                /\ raised' = "none"
                /\ logged' = after.logged
                /\ local_write' =
                       IF after.logged = LogNewData(Head(loop).device_id)
                       THEN [local_write EXCEPT
                               ![Head(loop).device_id] = NoWrite]
                       ELSE local_write
    /\ UNCHANGED << now, devices, call, posts >>

\* ----------------------------------------------------------------- commands

SpaOps ==
    { "spa_set_power", "spa_set_heat", "spa_set_filter", "spa_set_locked",
      "spa_set_bubbles", "spa_set_target_temp" }
PoolFilterOps == { "pool_filter_set_power", "pool_filter_set_time" }

\* The arguments a caller passes.
TargetTemps == { 40 }
Hours == { 4 }

\* What the awaited session.post can come back with: a timeout, or an HTTP
\* response that is ok or not, whose body parses as JSON or not.
PostResponses ==
    { [status |-> "timeout"],
      [status |-> "http", ok |-> TRUE, json |-> TRUE, error_code |-> 0],
      [status |-> "http", ok |-> TRUE, json |-> FALSE, error_code |-> 0] }
    \cup { [status |-> "http", ok |-> FALSE, json |-> TRUE, error_code |-> e] :
             e \in ErrorCodes }

\* _raise_for_status: the exception raised, "none" when the response is ok.
raise_for_status(response) ==
    IF response.ok THEN "none"
    ELSE IF ~response.json THEN "ClientResponseError"
    ELSE CASE response.error_code = 9004 -> "BestwayTokenInvalidException"
           [] response.error_code = 9005 -> "BestwayUserDoesNotExistException"
           [] response.error_code = 9042 -> "BestwayOfflineException"
           [] response.error_code = 9020 -> "BestwayIncorrectPasswordException"
           [] OTHER -> "ClientResponseError"

\* _do_post: the exception it raises, "none" when it returns.
do_post(response) ==
    IF response.status = "timeout" THEN "TimeoutError"
    ELSE IF raise_for_status(response) # "none"
         THEN raise_for_status(response)
         ELSE IF ~response.json THEN "JSONDecodeError" ELSE "none"

\* Lines 313-319: what spa_set_power does to the object it looked up.
apply_spa_set_power(state, t, power) ==
    [ state EXCEPT !.timestamp = t,
                   !.spa_power = PyBool(power),
                   !.filter_power = IF ~power THEN PyBool(FALSE) ELSE @,
                   !.heat_power = IF ~power THEN PyBool(FALSE) ELSE @,
                   !.wave_power = IF ~power THEN PyBool(FALSE) ELSE @ ]

\* Lines 338-342.
apply_spa_set_heat(state, t, heat) ==
    [ state EXCEPT !.timestamp = t,
                   !.heat_power = PyBool(heat),
                   !.spa_power = IF heat THEN PyBool(TRUE) ELSE @,
                   !.filter_power = IF heat THEN PyBool(TRUE) ELSE @ ]

\* A filter command that leaves the heater as it is.
FilterOffLeavesHeat(state, t, filtering) ==
    [ state EXCEPT !.timestamp = t,
                   !.filter_power = PyBool(filtering),
                   !.spa_power = IF filtering THEN PyBool(TRUE) ELSE @,
                   !.wave_power = IF ~filtering THEN PyBool(FALSE) ELSE @ ]

\* Lines 357-363.
apply_spa_set_filter(state, t, filtering) ==
    [ state EXCEPT !.timestamp = t,
                   !.filter_power = PyBool(filtering),
                   !.spa_power = IF filtering THEN PyBool(TRUE) ELSE @,
                   !.wave_power = IF ~filtering THEN PyBool(FALSE) ELSE @,
                   !.heat_power = IF ~filtering THEN PyBool(FALSE) ELSE @ ]

\* A lock that also switches the spa on.
LockSwitchesPowerOn(state, t, locked) ==
    [ state EXCEPT !.timestamp = t, !.locked = PyBool(locked),
                   !.spa_power = PyBool(TRUE) ]

\* Lines 378-379.
apply_spa_set_locked(state, t, locked) ==
    [ state EXCEPT !.timestamp = t, !.locked = PyBool(locked) ]

\* Lines 394-397.
apply_spa_set_bubbles(state, t, bubbles) ==
    [ state EXCEPT !.timestamp = t,
                   !.wave_power = PyBool(bubbles),
                   !.spa_power = IF bubbles THEN PyBool(TRUE) ELSE @ ]

\* Lines 412-413.
apply_spa_set_target_temp(state, t, target_temp) ==
    [ state EXCEPT !.timestamp = t, !.temp_set = target_temp ]

\* Lines 428-429.
apply_pool_filter_set_power(state, t, power) ==
    [ state EXCEPT !.timestamp = t, !.power = PyBool(power) ]

\* Lines 444-445.
apply_pool_filter_set_time(state, t, hours) ==
    [ state EXCEPT !.timestamp = t, !.time = hours ]

\* The code after the await of the command `op`.
Apply(op, state, t, value) ==
    CASE op = "spa_set_power" -> apply_spa_set_power(state, t, value)
      [] op = "spa_set_heat" -> apply_spa_set_heat(state, t, value)
      [] op = "spa_set_filter" -> apply_spa_set_filter(state, t, value)
      [] op = "spa_set_locked" -> apply_spa_set_locked(state, t, value)
      [] op = "spa_set_bubbles" -> apply_spa_set_bubbles(state, t, value)
      [] op = "spa_set_target_temp" ->
            apply_spa_set_target_temp(state, t, value)
      [] op = "pool_filter_set_power" ->
            apply_pool_filter_set_power(state, t, value)
      [] op = "pool_filter_set_time" ->
            apply_pool_filter_set_time(state, t, value)

\* Commands that look a device up in either cache, whatever its type.
EitherCache(op) ==
    [ d \in DeviceIds |->
        IF spa_state_cache[d] # None THEN spa_state_cache[d]
        ELSE pool_filter_state_cache[d] ]

\* The cache a command looks its device up in.
CacheOf(op) ==
    IF op \in SpaOps THEN spa_state_cache ELSE pool_filter_state_cache

\* Commands without the check of the lookup's result.
NoLookupCheck(op, device_id) == FALSE

\* (cached_state := cache.get(device_id)) is None
NotRecognised(op, device_id) == CacheOf(op)[device_id] = None

\* Commands that write the object whether or not _do_post raised.
WriteRegardless(op, state, t, value, exc) == Apply(op, state, t, value)

\* Commands that return between the timestamp and the fields.
StampOnly(op, state, t, value, exc) ==
    IF exc = "none" THEN [state EXCEPT !.timestamp = t] ELSE state

\* The object a command holds after its _do_post: written when the request
\* succeeded, untouched when _do_post raised `exc`.
AfterPost(op, state, t, value, exc) ==
    IF exc = "none" THEN Apply(op, state, t, value) ELSE state

\* A command is called: the lookup raises BestwayException when the cache
\* has no entry; otherwise the coroutine keeps the object it found and
\* suspends in _do_post.
Command(c, op, device_id, value) ==
    /\ call[c].pc = "idle"
    /\ IF NotRecognised(op, device_id)
       THEN /\ raised' = "BestwayException"
            /\ UNCHANGED << call, posts >>
       ELSE /\ posts < MaxPosts
            /\ posts' = posts + 1
            /\ call' = [ call EXCEPT ![c] =
                           [ pc |-> "awaiting", op |-> op,
                             device_id |-> device_id, value |-> value,
                             cached_state |-> CacheOf(op)[device_id] ] ]
            /\ raised' = "none"
    /\ logged' = NoLog
    /\ UNCHANGED << now, devices, spa_state_cache, pool_filter_state_cache,
                    unknown_states, heap, loop, local_write >>

spa_set_power(c, device_id, power) ==
    Command(c, "spa_set_power", device_id, power)
spa_set_heat(c, device_id, heat) ==
    Command(c, "spa_set_heat", device_id, heat)
spa_set_filter(c, device_id, filtering) ==
    Command(c, "spa_set_filter", device_id, filtering)
spa_set_locked(c, device_id, locked) ==
    Command(c, "spa_set_locked", device_id, locked)
spa_set_bubbles(c, device_id, bubbles) ==
    Command(c, "spa_set_bubbles", device_id, bubbles)
spa_set_target_temp(c, device_id, target_temp) ==
    Command(c, "spa_set_target_temp", device_id, target_temp)
pool_filter_set_power(c, device_id, power) ==
    Command(c, "pool_filter_set_power", device_id, power)
pool_filter_set_time(c, device_id, hours) ==
    Command(c, "pool_filter_set_time", device_id, hours)

\* The timestamp of the poll stored last for a device with a record: the
\* record's own, unless a command has stamped the record since.
LastPollTimestamp(did) ==
    IF local_write[did] # NoWrite THEN local_write[did].poll
    ELSE local_update_timestamp(did)

\* A command resumes from _do_post: an exception leaves the coroutine with
\* nothing written; otherwise the object it holds is written and it returns.
command_resume(c, response) ==
    /\ call[c].pc = "awaiting"
    /\ call' = [call EXCEPT ![c] = Idle]
    /\ raised' = do_post(response)
    /\ logged' = NoLog
    /\ local_write' =
          IF do_post(response) # "none" THEN local_write
          ELSE [ local_write EXCEPT ![call[c].device_id] =
                   [ op |-> call[c].op, value |-> call[c].value, at |-> now,
                     poll |-> LastPollTimestamp(call[c].device_id) ] ]
    /\ \E state \in { AfterPost(call[c].op, heap[call[c].cached_state], now,
                                 call[c].value, do_post(response)) } :
          heap' = Collect([heap EXCEPT ![call[c].cached_state] = state],
                          spa_state_cache, pool_filter_state_cache, call')
    /\ UNCHANGED << now, devices, spa_state_cache, pool_filter_state_cache,
                    unknown_states, loop, posts >>

Next ==
    \/ Tick
    \/ \E list \in BindingLists : refresh_bindings(list)
    \/ fetch_data
    \/ \E r \in Awaited : fetch_data_resume(r)
    \/ \E c \in Callers, d \in DeviceIds :
          \/ \E v \in BOOLEAN : spa_set_power(c, d, v)
          \/ \E v \in BOOLEAN : spa_set_heat(c, d, v)
          \/ \E v \in BOOLEAN : spa_set_filter(c, d, v)
          \/ \E v \in BOOLEAN : spa_set_locked(c, d, v)
          \/ \E v \in BOOLEAN : spa_set_bubbles(c, d, v)
          \/ \E v \in TargetTemps : spa_set_target_temp(c, d, v)
          \/ \E v \in BOOLEAN : pool_filter_set_power(c, d, v)
          \/ \E v \in Hours : pool_filter_set_time(c, d, v)
    \/ \E c \in Callers, r \in PostResponses : command_resume(c, r)

Spec == Init /\ [][Next]_vars

\* ------------------------------------------------------- devices unbound

\* The bindings after the spa was removed from the account.
UnboundLists == { << PoolDevice >> }

\* The program with an account whose spa comes and goes.
NextUnbind ==
    \/ Next
    \/ \E list \in UnboundLists : refresh_bindings(list)

SpecUnbind == Init /\ [][NextUnbind]_vars

\* ------------------------------------------------------ the spa's switches

\* A current-firmware payload with the four switches as given.
SpaSwitchAttrs(power, filtering, heat, wave) ==
    [k \in SpaKeys |->
        CASE k = "power" -> power
          [] k = "filter_power" -> filtering
          [] k = "heat_power" -> heat
          [] k = "wave_power" -> wave
          [] OTHER -> SpaAttrs(1, 0)[k]]

\* The payloads of a spa over every setting of its four switches.
SpaSwitchResponses ==
    Responses({ [updated_at |-> 1, attr |-> a] :
                  a \in { SpaSwitchAttrs(p, f, h, w) :
                            p \in {0, 1}, f \in {0, 1},
                            h \in {0, 1}, w \in {0, 1} } })

\* The responses the suspended _do_get can resume with, by device type.
SwitchAwaited ==
    IF loop = << >> THEN {}
    ELSE IF Head(loop).device_type = AIRJET_SPA THEN SpaSwitchResponses
         ELSE GetResponses(Head(loop).device_type)

\* Polls of these payloads and the spa commands.
NextSwitches ==
    \/ \E list \in BindingLists : refresh_bindings(list)
    \/ fetch_data
    \/ \E r \in SwitchAwaited : fetch_data_resume(r)
    \/ \E c \in Callers, d \in DeviceIds :
          \/ \E v \in BOOLEAN : spa_set_power(c, d, v)
          \/ \E v \in BOOLEAN : spa_set_heat(c, d, v)
          \/ \E v \in BOOLEAN : spa_set_filter(c, d, v)
          \/ \E v \in BOOLEAN : spa_set_locked(c, d, v)
          \/ \E v \in BOOLEAN : spa_set_bubbles(c, d, v)
          \/ \E v \in TargetTemps : spa_set_target_temp(c, d, v)
    \/ \E c \in Callers, r \in PostResponses : command_resume(c, r)

SpecSwitches == Init /\ [][NextSwitches]_vars

\* ------------------------------------------------- the decoder on its inputs

\* A second account: the same two device ids, bound as a legacy spa and as
\* a device of a type the integration does not know.
LegacySpaDevice ==
    [device_id |-> SpaDevice.device_id, device_type |-> Airjet_V01]
UnknownDevice ==
    [device_id |-> PoolDevice.device_id, device_type |-> UNKNOWN]
DecodeBindingLists ==
    { <<SpaDevice, PoolDevice>>, <<LegacySpaDevice, UnknownDevice>> }

\* A complete current-firmware spa payload with the flags of `flags` raised.
SpaFlagAttrs(flags) ==
    [k \in SpaKeys |->
        IF \E n \in flags : k = SystemErrKey(n) THEN 1 ELSE SpaAttrs(1, 0)[k]]

\* Current-firmware payloads: every set of at most MaxFlags raised flags,
\* and a payload without one of the flag keys.  They come with a timestamp
\* no cached record exceeds.
SpaFlagResponses ==
    Responses({ [updated_at |-> MaxTime, attr |-> a] :
                  a \in { SpaFlagAttrs(flags) :
                            flags \in { f \in SUBSET SpaErrNums :
                                          Cardinality(f) <= MaxFlags } }
                        \cup { Without(SpaAttrs(1, 0), SystemErrKey(9)) } })

\* The responses the suspended _do_get can resume with, by device type.
DecodeAwaited ==
    IF loop = << >> THEN {}
    ELSE IF Head(loop).device_type = AIRJET_SPA THEN SpaFlagResponses
         ELSE GetResponses(Head(loop).device_type)

\* The poll cycle alone, over both accounts and over the payloads above.
NextDecode ==
    \/ \E list \in DecodeBindingLists : refresh_bindings(list)
    \/ fetch_data
    \/ \E r \in DecodeAwaited : fetch_data_resume(r)

SpecDecode == Init /\ [][NextDecode]_vars

\* ------------------------------------------------------------------- claims

\* read(): the status the caches hold for a device, NoObj when they hold none.
Read(did) ==
    IF spa_state_cache[did] # None THEN heap[spa_state_cache[did]]
    ELSE IF pool_filter_state_cache[did] # None
         THEN heap[pool_filter_state_cache[did]]
         ELSE NoObj

\* The caches and every status they hold are as they were.
CachesUntouched ==
    /\ UNCHANGED << spa_state_cache, pool_filter_state_cache, unknown_states >>
    /\ \A d \in DeviceIds :
          /\ Lookup(spa_state_cache, d)' = Lookup(spa_state_cache, d)
          /\ Lookup(pool_filter_state_cache, d)' =
                 Lookup(pool_filter_state_cache, d)

\* What a payload decodes to for a device type, KeyError when a key lacks.
Candidate(device_type, body) ==
    CASE device_type = AIRJET_SPA -> DecodeSpa(body.updated_at, body.attr)
      [] device_type = Airjet_V01 -> DecodeV01(body.updated_at, body.attr)
      [] device_type = POOL_FILTER ->
            DecodePoolFilter(body.updated_at, body.attr)

\* The keys a payload of a known device type must carry.
RequiredKeys(device_type) ==
    CASE device_type = AIRJET_SPA -> SpaKeys
      [] device_type = Airjet_V01 -> V01Keys
      [] device_type = POOL_FILTER -> PoolFilterKeys

KnownTypes == { AIRJET_SPA, Airjet_V01, POOL_FILTER }

\* fetch_data awaits the response for device d, and r carries a body.
Polling(d, r) ==
    /\ loop # << >>
    /\ Head(loop).device_id = d
    /\ r.status = "ok"

\* This step is fetch_data's iteration for device d on the body of r.
PollStep(d, r) ==
    /\ Polling(d, r)
    /\ loop' = Tail(loop)
    /\ fetch_data_resume(r)

\* This step is caller c's command resuming from a _do_post that succeeded.
Succeeds(c) ==
    /\ call[c].pc = "awaiting"
    /\ \E r \in PostResponses : do_post(r) = "none" /\ command_resume(c, r)

\* This step is caller c's command resuming from a _do_post that raised.
Fails(c) ==
    /\ call[c].pc = "awaiting"
    /\ \E r \in PostResponses : do_post(r) # "none" /\ command_resume(c, r)

\* The status carries what the command writes: writing it again at the
\* same time changes nothing.
Carries(state, op, value, t) ==
    state # NoObj /\ Apply(op, state, t, value) = state

AllOps == SpaOps \cup PoolFilterOps
Values(op) ==
    CASE op = "spa_set_target_temp" -> TargetTemps
      [] op = "pool_filter_set_time" -> Hours
      [] OTHER -> BOOLEAN

C2_LocalWritesWin ==
    [][ \A d \in DeviceIds, r \in Awaited :
          ( /\ Polling(d, r)
            /\ local_write[d] # NoWrite
            /\ local_write[d].op \in SpaOps
            /\ r.body.updated_at <= local_write[d].poll
            /\ PollStep(d, r) )
          => /\ CachesUntouched
             /\ Carries(Read(d)', local_write[d].op, local_write[d].value,
                        local_write[d].at) ]_vars

\* C3: no lost update under interleaving: when a poll has replaced the
\* record of device d while a command for d waited on its request, the
\* record the cache holds for d once the command has succeeded carries the
\* command's primary mutation, its derived effects and its timestamp.
C3_NoLostUpdate ==
    [][ \A c \in Callers, d \in DeviceIds :
          ( /\ call[c].pc = "awaiting"
            /\ call[c].device_id = d
            /\ CacheOf(call[c].op)[d] # call[c].cached_state
            /\ Succeeds(c) )
          => Carries(Read(d)', call[c].op, call[c].value, now) ]_vars

\* The update is lost: a command on device d has succeeded, no poll has
\* stored a record for d since, and the cached record does not carry what
\* the command wrote.
C3_Witness ==
    \E d \in DeviceIds :
        /\ local_write[d] # NoWrite
        /\ ~Carries(Read(d), local_write[d].op, local_write[d].value,
                    local_write[d].at)

\* C4: a poll whose response has updated_at = 0 leaves every cache and
\* every cached record as it was: nothing is evicted, modified or created.
C4_OfflineChangesNothing ==
    [][ \A d \in DeviceIds, r \in Awaited :
          (Polling(d, r) /\ r.body.updated_at = 0 /\ PollStep(d, r))
          => CachesUntouched ]_vars

\* C4's case has happened: fetch_data just took the offline branch for a
\* device that has a cached record.
C4_Witness ==
    \E d \in DeviceIds : logged = LogOffline(d) /\ Read(d) # NoObj

\* C5: a command writes nothing before its upstream request has succeeded:
\* the step that calls it and the step in which its request fails leave the
\* caches and every cached record, timestamps included, as they were, and
\* the failure leaves the object the command looked up unwritten.
C5_FailedCommandWritesNothing ==
    [][ \A c \in Callers :
          /\ Fails(c) =>
                /\ CachesUntouched
                /\ raised' # "none"
                /\ heap'[call[c].cached_state]
                       \in { heap[call[c].cached_state], NoObj }
          /\ (call[c].pc = "idle" /\ call'[c].pc = "awaiting") =>
                (CachesUntouched /\ heap' = heap) ]_vars

\* C5's case has happened: a command on a cached device got the upstream
\* "device offline" error, which only a command's request raises.
C5_Witness ==
    /\ raised = "BestwayOfflineException"
    /\ posts > 0
    /\ \A c \in Callers : call[c].pc = "idle"
    /\ \E d \in DeviceIds : Read(d) # NoObj

\* C6: a command for a device id that neither cache has a record of raises
\* BestwayException to its caller, sends no request (no coroutine is left
\* suspended, no request is counted) and leaves caches and heap as they were.
C6_UnknownDeviceIsRefused ==
    [][ \A c \in Callers, op \in AllOps, d \in DeviceIds :
          \A v \in Values(op) :
              (Read(d) = NoObj /\ Command(c, op, d, v))
              => /\ raised' = "BestwayException"
                 /\ UNCHANGED << call, posts, heap >>
                 /\ CachesUntouched ]_vars

\* C6's case has happened: a command was refused while no device had a
\* record yet and no request was ever sent.
C6_Witness ==
    /\ raised = "BestwayException"
    /\ posts = 0
    /\ \A d \in DeviceIds : Read(d) = NoObj

\* C7: a spa command on a device cached as a pool filter, and a pool filter
\* command on a device cached as a spa, raise BestwayException to the
\* caller, send no request and leave caches and heap as they were.
C7_WrongTypeIsRefused ==
    [][ \A c \in Callers, op \in AllOps, d \in DeviceIds :
          \A v \in Values(op) :
              ( /\ \/ op \in SpaOps /\ pool_filter_state_cache[d] # None
                   \/ op \in PoolFilterOps /\ spa_state_cache[d] # None
                /\ Command(c, op, d, v) )
              => /\ raised' = "BestwayException"
                 /\ UNCHANGED << call, posts, heap >>
                 /\ CachesUntouched ]_vars

\* C7's case has happened: with a spa and a pool filter both cached, each in
\* its own cache only, and no request sent so far, a command was refused.
C7_Witness ==
    /\ raised = "BestwayException"
    /\ posts = 0
    /\ \A d \in DeviceIds : Read(d) # NoObj
    /\ \E d \in DeviceIds :
          spa_state_cache[d] = None /\ pool_filter_state_cache[d] # None
    /\ \E d \in DeviceIds :
          spa_state_cache[d] # None /\ pool_filter_state_cache[d] = None

\* C8: after a successful spa "power off" command the cached record has
\* power, filter, heat and bubbles false, whatever they were before.
C8_PowerOffSwitchesAllOff ==
    [][ \A c \in Callers, d \in DeviceIds :
          ( /\ call[c].pc = "awaiting"
            /\ call[c].device_id = d
            /\ call[c].op = "spa_set_power"
            /\ call[c].value = FALSE
            /\ Succeeds(c) )
          => /\ ~Truthy(Read(d)'.spa_power)
             /\ ~Truthy(Read(d)'.filter_power)
             /\ ~Truthy(Read(d)'.heat_power)
             /\ ~Truthy(Read(d)'.wave_power) ]_vars

\* A "power off" has succeeded on a spa, no poll has stored a record for
\* it since, and its cached record shows the power on.
C8_Witness ==
    \E d \in DeviceIds :
        /\ local_write[d].op = "spa_set_power"
        /\ local_write[d].value = FALSE
        /\ Truthy(Read(d).spa_power)

\* C9: after a successful spa "heat on" command the cached record has heat,
\* power and filter true, whatever they were before; after a successful
\* "heat off" the cached record is the one before with heat false and the
\* timestamp of the command, nothing else changed.
C9_HeatOnSwitchesPowerAndFilterOn ==
    [][ \A c \in Callers, d \in DeviceIds :
          ( /\ call[c].pc = "awaiting"
            /\ call[c].device_id = d
            /\ call[c].op = "spa_set_heat"
            /\ Succeeds(c) )
          => IF call[c].value
             THEN /\ Truthy(Read(d)'.heat_power)
                  /\ Truthy(Read(d)'.spa_power)
                  /\ Truthy(Read(d)'.filter_power)
             ELSE Read(d)' = [ Read(d) EXCEPT !.heat_power = PyBool(FALSE),
                                              !.timestamp = now ] ]_vars

\* A "heat on" has succeeded on a spa, no poll has stored a record for it
\* since, and its cached record shows the heater off.
C9_Witness ==
    \E d \in DeviceIds :
        /\ local_write[d].op = "spa_set_heat"
        /\ local_write[d].value = TRUE
        /\ ~Truthy(Read(d).heat_power)

\* C10: a poll whose payload, for a known device type, lacks a required
\* attribute key leaves every cache and every cached record as it was:
\* the prior record (or its absence) stays, nothing partial is stored.
C10_MissingKeyChangesNothing ==
    [][ \A d \in DeviceIds, r \in Awaited :
          ( /\ Polling(d, r)
            /\ Head(loop).device_type \in KnownTypes
            /\ ~(RequiredKeys(Head(loop).device_type)
                    \subseteq DOMAIN r.body.attr)
            /\ PollStep(d, r) )
          => CachesUntouched ]_vars

\* C10's case has happened: fetch_data just caught the KeyError of a
\* payload that lacks a key of a bound device's type, a device that has a
\* cached record.
C10_Witness ==
    /\ logged.msg = "Unexpected missing key"
    /\ \E i \in DOMAIN devices :
          /\ Read(devices[i].device_id) # NoObj
          /\ DOMAIN logged.attrs.text # {}
          /\ DOMAIN logged.attrs.text
                 \subseteq RequiredKeys(devices[i].device_type)
          /\ DOMAIN logged.attrs.text # RequiredKeys(devices[i].device_type)

\* The payload of r reaches the try block for device d and its decoding
\* raises the KeyError.
DecodeFails(d, r) ==
    /\ Polling(d, r)
    /\ Head(loop).device_type \in KnownTypes
    /\ ~IsOffline(r.body.updated_at)
    /\ ~IsStale(r.body.updated_at, local_update_timestamp(d))
    /\ Candidate(Head(loop).device_type, r.body) = KeyError

\* C11: a decode failure for one device does not stop the poll cycle: the
\* step raises nothing to the caller and leaves the loop at the devices
\* after it, the next of which is awaited; after the last device the
\* cycle has returned normally.
C11_DecodeFailureKeepsTheCycle ==
    [][ \A d \in DeviceIds, r \in Awaited :
          (DecodeFails(d, r) /\ fetch_data_resume(r))
          => /\ raised' = "none"
             /\ loop' = Tail(loop)
             /\ (Tail(loop) # << >> => Awaited' # {}) ]_vars

\* C11's case has happened: the decoding for a device just failed, nothing
\* was raised and fetch_data awaits the response for the device after it.
C11_Witness ==
    /\ logged.msg = "Unexpected missing key"
    /\ raised = "none"
    /\ loop # << >>
    /\ Awaited # {}

\* A payload with the flag keys it lacks added as inactive.
WithMissingFlagsInactive(attrs, keys) ==
    [k \in DOMAIN attrs \cup keys |-> IF k \in DOMAIN attrs THEN attrs[k] ELSE 0]

\* The flag keys of the two families.
V01FlagKeys == { V01ErrKey(n) : n \in V01ErrNums }
SpaFlagKeys == { SystemErrKey(n) : n \in SpaErrNums }

\* The payload lacks keys, flag keys of `flagKeys` only.
LacksOnlyFlags(attrs, keys, flagKeys) ==
    /\ ~(keys \subseteq DOMAIN attrs)
    /\ (keys \ DOMAIN attrs) \subseteq flagKeys

\* C12: error-flag extraction is strict by firmware family: a legacy (V01)
\* payload that lacks individual flag keys is decoded with those flags
\* inactive and merged, whereas a current-firmware payload that lacks a
\* system_err key fails to decode and leaves the caches as they were.
C12_FlagStrictnessByFamily ==
    [][ \A d \in DeviceIds, r \in DecodeAwaited :
          ( /\ Polling(d, r)
            /\ ~IsOffline(r.body.updated_at)
            /\ ~IsStale(r.body.updated_at, local_update_timestamp(d))
            /\ fetch_data_resume(r) )
          => /\ ( /\ Head(loop).device_type = Airjet_V01
                  /\ LacksOnlyFlags(r.body.attr, V01Keys, V01FlagKeys) )
                => Read(d)' = DecodeV01(r.body.updated_at,
                                 WithMissingFlagsInactive(r.body.attr,
                                                          V01FlagKeys))
             /\ ( /\ Head(loop).device_type = AIRJET_SPA
                  /\ LacksOnlyFlags(r.body.attr, SpaKeys, SpaFlagKeys) )
                => CachesUntouched ]_vars

\* The legacy spa's payload without the key E31 has been polled: the
\* missing key was logged and no record was stored.
C12_Witness ==
    /\ logged = LogMissingKey(Without(V01Attrs(1, 0), V01ErrKey(31)))
    /\ Read(LegacySpaDevice.device_id) = NoObj
    /\ Len(loop) = 1

\* The list is strictly ascending, hence without duplicates.
StrictlyAscending(list) ==
    \A i \in 1..Len(list) : \A j \in 1..Len(list) : i < j => list[i] < list[j]

\* The flags a current-firmware payload raises.
RaisedFlags(attrs) == { n \in SpaErrNums : attrs[SystemErrKey(n)] = 1 }

\* C13: for a current-firmware spa payload that carries all nine flags, the
\* decoded error list is exactly the set of n in 1..9 with system_err<n> = 1,
\* in strictly ascending order and without duplicates.
C13_ErrorsAreTheRaisedFlagsAscending ==
    [][ \A d \in DeviceIds, r \in SpaFlagResponses :
          ( /\ Polling(d, r)
            /\ Head(loop).device_type = AIRJET_SPA
            /\ SpaKeys \subseteq DOMAIN r.body.attr
            /\ ~IsOffline(r.body.updated_at)
            /\ ~IsStale(r.body.updated_at, local_update_timestamp(d))
            /\ fetch_data_resume(r) )
          => /\ Read(d)' # NoObj
             /\ StrictlyAscending(Read(d)'.errors)
             /\ { Read(d)'.errors[i] : i \in 1..Len(Read(d)'.errors) }
                    = RaisedFlags(r.body.attr) ]_vars

\* The spa's record lists the errors 1 and 9, decoded from a payload that
\* raises exactly these two flags.
C13_Witness ==
    /\ Read(SpaDevice.device_id) # NoObj
    /\ Read(SpaDevice.device_id).kind = "BestwaySpaDeviceStatus"
    /\ Read(SpaDevice.device_id).errors = << 1, 9 >>

\* The condition the specification assigns to a Bestway error code.
ConditionOf(error_code) ==
    CASE error_code = 9004 -> "BestwayTokenInvalidException"
      [] error_code = 9005 -> "BestwayUserDoesNotExistException"
      [] error_code = 9042 -> "BestwayOfflineException"
      [] error_code = 9020 -> "BestwayIncorrectPasswordException"
      [] OTHER -> "ClientResponseError"

\* A command whose request the server refused surfaces the condition of the
\* error code in the response.
RefusedCommandIsMapped ==
    \A c \in Callers, r \in PostResponses :
       ( /\ call[c].pc = "awaiting"
         /\ r.status = "http"
         /\ ~r.ok
         /\ command_resume(c, r) )
       => raised' = ConditionOf(r.error_code)

\* A poll whose request the server refused surfaces the condition of the
\* error code in the response.
RefusedPollIsMapped ==
    \A r \in Awaited :
       ( /\ r.status = "http_error"
         /\ fetch_data_resume(r) )
       => raised' = ConditionOf(r.error_code)

\* C14: a failed upstream request, a command write or a poll, surfaces a
\* token-invalid condition for error code 9004, account-does-not-exist for
\* 9005, device-offline for 9042, password-incorrect for 9020, and an
\* undifferentiated transport/API failure for any other failure.
C14_ErrorCodesAreMapped ==
    [][ RefusedCommandIsMapped /\ RefusedPollIsMapped ]_vars

\* The record of device d is the object caller c's command holds.
HoldsRecord(c, d) ==
    /\ call[c].device_id = d
    /\ CacheOf(call[c].op)[d] = call[c].cached_state

\* C15: a command's primary mutation, its derived mutations and the new
\* timestamp are applied to the cached record as one indivisible step: when
\* a command succeeds, every record read before and after the step is
\* either as it was or carries the whole write, never a part of it.
C15_CommandWritesAreIndivisible ==
    [][ \A c \in Callers :
          (call[c].pc = "awaiting" /\ Succeeds(c))
          => \A d \in DeviceIds :
                Read(d)' = IF HoldsRecord(c, d)
                           THEN Apply(call[c].op, Read(d), now, call[c].value)
                           ELSE Read(d) ]_vars

\* The filter of a spa with everything on was switched off: the record
\* shows the filter, the heater and the bubbles off and the new timestamp
\* together.
C15_Witness ==
    \E d \in DeviceIds :
       /\ local_write[d] # NoWrite
       /\ local_write[d].op = "spa_set_filter"
       /\ local_write[d].value = FALSE
       /\ Read(d) # NoObj
       /\ Read(d).timestamp = local_write[d].at
       /\ Read(d).timestamp # local_write[d].poll
       /\ Read(d).spa_power = 1
       /\ Read(d).filter_power = 0
       /\ Read(d).heat_power = 0
       /\ Read(d).wave_power = 0

\* The fields of a spa status.
SpaFields ==
    { "kind", "timestamp", "spa_power", "temp_now", "temp_set",
      "temp_set_unit", "heat_power", "heat_temp_reach", "filter_power",
      "wave_power", "locked", "errors", "earth" }

\* The field a command without derived mutations writes.
OwnField(op) ==
    CASE op = "spa_set_locked" -> "locked"
      [] op = "spa_set_target_temp" -> "temp_set"

\* C16: locking or unlocking changes only the record's locked field and its
\* timestamp, and setting the target temperature changes only the record's
\* target temperature and its timestamp; every other field, of this record
\* and of every other, is as it was.
C16_LockAndTargetTempFrame ==
    [][ \A c \in Callers :
          ( /\ call[c].pc = "awaiting"
            /\ call[c].op \in { "spa_set_locked", "spa_set_target_temp" }
            /\ Succeeds(c) )
          => /\ UNCHANGED << spa_state_cache, pool_filter_state_cache,
                             unknown_states, devices >>
             /\ \A d \in DeviceIds :
                   IF HoldsRecord(c, d)
                   THEN /\ \A f \in SpaFields \ { "timestamp",
                                                  OwnField(call[c].op) } :
                              Read(d)'[f] = Read(d)[f]
                        /\ Read(d)'.timestamp = now
                        /\ Read(d)'[OwnField(call[c].op)] =
                              IF call[c].op = "spa_set_locked"
                              THEN PyBool(call[c].value) ELSE call[c].value
                   ELSE Read(d)' = Read(d) ]_vars

\* A spa that was switched off has been locked: the record is locked,
\* stamped with the time of the command, and still switched off.
C16_Witness ==
    \E d \in DeviceIds :
       /\ local_write[d] # NoWrite
       /\ local_write[d].op = "spa_set_locked"
       /\ local_write[d].value = TRUE
       /\ Read(d) # NoObj
       /\ Read(d).timestamp = local_write[d].at
       /\ Read(d).locked = 1
       /\ Read(d).spa_power = 0

\* The device id is in the bindings list.
Bound(d) == \E i \in 1..Len(devices) : devices[i].device_id = d

\* The cache has a status record for the device id.
HasRecord(cache, d) == cache[d] # None /\ heap[cache[d]] # NoObj

\* C17: a status record, once created for a device id, is never removed by
\* any poll outcome or any command outcome: a step after which the record is
\* gone from its cache is a step that removes the device id from the
\* bindings list.
C17_RecordsAreNeverRemoved ==
    [][ \A d \in DeviceIds :
          /\ (HasRecord(spa_state_cache, d) /\ ~HasRecord(spa_state_cache, d)')
             => (Bound(d) /\ ~Bound(d)')
          /\ ( /\ HasRecord(pool_filter_state_cache, d)
               /\ ~HasRecord(pool_filter_state_cache, d)' )
             => (Bound(d) /\ ~Bound(d)') ]_vars

\* The spa was removed from the bindings after its record was created, and
\* the pool filter was then found offline: both records are still cached.
C17_Witness ==
    /\ HasRecord(spa_state_cache, SpaDevice.device_id)
    /\ ~Bound(SpaDevice.device_id)
    /\ Bound(PoolDevice.device_id)
    /\ HasRecord(pool_filter_state_cache, PoolDevice.device_id)
    /\ logged = LogOffline(PoolDevice.device_id)

\* C18: the timestamp of the cached record of a device never decreases
\* across polls and commands: every step leaves the record's timestamp
\* greater than or equal to its previous value.
C18_TimestampNeverDecreases ==
    [][ \A d \in DeviceIds :
          (Read(d) # NoObj /\ Read(d)' # NoObj)
          => Read(d)'.timestamp >= Read(d).timestamp ]_vars

\* A command has stamped the record with a local time that is earlier than
\* the server timestamp of the poll the record came from.
C18_Witness ==
    \E d \in DeviceIds :
       /\ local_write[d] # NoWrite
       /\ Read(d) # NoObj
       /\ Read(d).timestamp = local_write[d].at
       /\ local_write[d].at < local_write[d].poll

\* The status is a spa's.
IsSpaStatus(state) ==
    state.kind \in { "BestwaySpaDeviceStatus", "BestwaySpaDeviceV01Status" }

\* The heater runs only with the filter, the filter and the bubbles only
\* with the power.
SwitchesConsistent(state) ==
    /\ Truthy(state.heat_power) => Truthy(state.filter_power)
    /\ Truthy(state.filter_power) => Truthy(state.spa_power)
    /\ Truthy(state.wave_power) => Truthy(state.spa_power)

\* C19: a successful spa command (power, heat, filter, bubbles, lock,
\* target temperature, with any value) on a cached spa record in which heat
\* implies filter, filter implies power and bubbles imply power leaves the
\* record satisfying these three implications; so does, by induction, every
\* sequence of such commands.
C19_CommandsKeepSwitchesConsistent ==
    [][ \A c \in Callers :
          ( /\ call[c].pc = "awaiting"
            /\ call[c].op \in SpaOps
            /\ Succeeds(c) )
          => \A d \in DeviceIds :
                ( /\ IsSpaStatus(Read(d))
                  /\ SwitchesConsistent(Read(d)) )
                => /\ IsSpaStatus(Read(d)')
                   /\ SwitchesConsistent(Read(d)') ]_vars

\* The bubbles of a spa without filter and heater were switched on: the
\* record has the bubbles and the power on, and is consistent.
C19_Witness ==
    \E d \in DeviceIds :
       /\ local_write[d] # NoWrite
       /\ local_write[d].op = "spa_set_bubbles"
       /\ local_write[d].value = TRUE
       /\ IsSpaStatus(Read(d))
       /\ Read(d).timestamp = local_write[d].at
       /\ Read(d).wave_power = 1
       /\ Read(d).spa_power = 1
       /\ Read(d).filter_power = 0
       /\ SwitchesConsistent(Read(d))

\* C20: a transport failure while fetching one device's snapshot ends the
\* poll cycle with the error surfaced to the caller: the devices later in
\* the cycle are not polled and every cached record, of the later devices
\* and of the devices merged earlier in the cycle, stays as it is.
C20_TransportFailureEndsTheCycle ==
    [][ \A r \in Awaited :
          ( /\ r.status # "ok"
            /\ fetch_data_resume(r) )
          => /\ raised' = do_get(r)
             /\ raised' # "none"
             /\ loop' = << >>
             /\ Awaited' = {}
             /\ CachesUntouched ]_vars

\* The request for the second device of the cycle timed out: the error is
\* surfaced, the cycle is over, the first device has the record a poll
\* merged and the second device has none.
C20_Witness ==
    /\ raised = "TimeoutError"
    /\ loop = << >>
    /\ call["caller1"].pc = "idle"
    /\ posts = 0
    /\ Len(devices) = 2
    /\ Read(devices[1].device_id) # NoObj
    /\ Read(devices[2].device_id) = NoObj

\* Everything the caches hold for device id b is as it was.
RecordUnchanged(b) ==
    /\ spa_state_cache'[b] = spa_state_cache[b]
    /\ pool_filter_state_cache'[b] = pool_filter_state_cache[b]
    /\ unknown_states'[b] = unknown_states[b]
    /\ Lookup(spa_state_cache, b)' = Lookup(spa_state_cache, b)
    /\ Lookup(pool_filter_state_cache, b)' = Lookup(pool_filter_state_cache, b)

\* C21: every poll step and every command for device id a, whether it is
\* accepted, rejected or fails, leaves the cached record of every other
\* device id b unchanged.
C21_OtherDevicesUntouched ==
    [][ \A a \in DeviceIds :
          \/ \A b \in DeviceIds \ {a} : RecordUnchanged(b)
          \/ ~ \/ /\ loop # << >>
                  /\ Head(loop).device_id = a
                  /\ \E r \in Awaited : fetch_data_resume(r)
               \/ \E c \in Callers :
                     /\ call[c].pc = "awaiting"
                     /\ call[c].device_id = a
                     /\ \E r \in PostResponses : command_resume(c, r)
               \/ \E c \in Callers :
                     /\ call[c].pc = "idle"
                     /\ \E op \in AllOps : \E v \in Values(op) :
                           Command(c, op, a, v) ]_vars

\* The spa's record carries a command's write and the pool filter's record
\* has just been merged by a poll: each record is in its cache, with the
\* timestamp of its own last write.
C21_Witness ==
    /\ local_write[SpaDevice.device_id] # NoWrite
    /\ Lookup(spa_state_cache, SpaDevice.device_id) # NoObj
    /\ Lookup(spa_state_cache, SpaDevice.device_id).timestamp
          = local_write[SpaDevice.device_id].at
    /\ logged = LogNewData(PoolDevice.device_id)
    /\ Lookup(pool_filter_state_cache, PoolDevice.device_id) # NoObj
    /\ Lookup(pool_filter_state_cache, PoolDevice.device_id).timestamp
          # local_write[SpaDevice.device_id].at
====
